---------------------------- MODULE Spec2Model ----------------------------
(***************************************************************************)
(* Serial monitor (monitor.py) with its reference plugin (plugins/ESP32.py) *)
(*                                                                         *)
(* Text is a sequence of one-character strings.  A byte on the wire or on  *)
(* standard input is written as the ASCII character it encodes; the bytes  *)
(* that are not ASCII or have no TLA+ escape are written by name ("C3",    *)
(* "A9", "DEL", "ESC").                                                     *)
(***************************************************************************)
EXTENDS Integers, Sequences, FiniteSets, TLC

VARIABLES
    plugins,        \* args.plugins: each plugin path by what loading it finds
    opened,         \* history: what main has opened, in order
    blamed,         \* the place in plugins of the plugin a load error names, or 0
    interactive,    \* args.interactive
    dumpOn,         \* args.file is not None (in the session: dumpfile is not None)
    plugin_filters, \* the loaded filters, in --plugins order
    extra_args,     \* parse_unknown_args(unknown)
    addr2line_ok,   \* the resolver executable runs and exits 0
    wire,           \* bytes the device has still to send
    keys,           \* bytes the operator has still to type
    typed,          \* history: bytes read from standard input
    received,       \* history: decoded text appended to data so far
    data,           \* the framer's buffer (read_serial / run_noninteractive)
    framed,         \* history: lines completed by the framer
    queue,          \* queue.Queue between read_serial and run_interactive
    drained,        \* history: lines taken from the queue since standard input was last read
    pc,             \* position of the main thread
    line,           \* the local variable line of the main thread
    fi,             \* position of the for loop over plugin_filters
    accepted,       \* the local variable accepted
    dump,           \* lines written to the dump file
    offered,        \* history: lines for which dispatch began
    calls,          \* history: filter invocations that returned
    printed,        \* lines printed by print(line), each with its place in offered
    resolved,       \* history: resolver calls, each the token's index and text
    buf,            \* the command buffer of run_interactive
    sent,           \* writes to the transport (ser.write)
    term,           \* terminal mode and O_NONBLOCK flag of standard input
    saved,          \* old_settings and orig_fl
    exc,            \* history: the exception raised in the session, or "none"
    ret,            \* exit status of main, or "none" while it runs
    message         \* main printed "Terminated: ..."

vars == << plugins, opened, blamed, interactive, dumpOn, plugin_filters,
           extra_args, addr2line_ok, wire, keys, typed, received, data, framed,
           queue, drained, pc, line, fi, accepted, dump, offered, calls, printed,
           resolved, buf, sent, term, saved, exc, ret, message >>

-----------------------------------------------------------------------------
(* Bounds of the model *)

MaxLines == 2      \* lines sent by the device in a session
MaxFilters == 2    \* length of the filter chain
MaxStream == 3     \* length of a byte stream fed to the framer
MaxFrames == 2     \* extra frames of a backtrace line
MaxKeys == 3       \* bytes the operator types in a console session

-----------------------------------------------------------------------------
(* Text helpers *)

Chars(s) == [i \in 1..Len(s) |-> SubSeq(s, i, i)]

CR == "\r"
LF == "\n"
REPLACEMENT == "FFFD"     \* U+FFFD, what errors="replace" substitutes
EACUTE == "E9"            \* U+00E9, encoded C3 A9

RECURSIVE SeqsUpTo(_, _)
SeqsUpTo(S, n) ==
    IF n = 0 THEN {<< >>}
    ELSE LET shorter == SeqsUpTo(S, n - 1)
         IN  shorter \cup {Append(s, x) : s \in {t \in shorter : Len(t) = n - 1}, x \in S}

RECURSIVE Concat(_)
Concat(ss) == IF ss = << >> THEN << >> ELSE Head(ss) \o Concat(Tail(ss))

IsPrefix(s, t) == Len(s) <= Len(t) /\ SubSeq(t, 1, Len(s)) = s

\* str.startswith
StartsWith(s, p) == IsPrefix(p, s)

\* a place of a sequence that yields no character
Skip == "SKIP"
Kept(c) == c # Skip

\* bytes.decode("utf-8", errors="replace") over the bytes of the model: C3 A9
\* is one character; a C3 that no A9 follows and an A9 that follows no C3 are
\* each replaced by U+FFFD
Decode(bs) ==
    SelectSeq([i \in 1..Len(bs) |->
                  IF bs[i] = "C3"
                  THEN IF i < Len(bs) /\ bs[i + 1] = "A9" THEN EACUTE ELSE REPLACEMENT
                  ELSE IF bs[i] = "A9"
                       THEN IF i > 1 /\ bs[i - 1] = "C3" THEN Skip ELSE REPLACEMENT
                       ELSE bs[i]],
              Kept)

\* str.find(ch): the 1-based index of the first ch, 0 when there is none
\* (Python: the 0-based index, -1 when there is none)
Find(s, ch) ==
    IF \E i \in 1..Len(s) : s[i] = ch
    THEN CHOOSE i \in 1..Len(s) : s[i] = ch /\ \A j \in 1..(i - 1) : s[j] # ch
    ELSE 0

\* line.replace("\r\n", "\n"): a CR that a LF follows is dropped
ReplaceCRLF(s) ==
    SelectSeq([i \in 1..Len(s) |->
                  IF s[i] = CR /\ i < Len(s) /\ s[i + 1] = LF THEN Skip ELSE s[i]],
              Kept)

\* line.replace("\r", "\n")
ReplaceCR(s) == [i \in 1..Len(s) |-> IF s[i] = CR THEN LF ELSE s[i]]


-----------------------------------------------------------------------------
(* The framer: read_serial lines 68-79, run_noninteractive lines 145-166 *)

\* the pending partial line is overwritten by the new fragment
FeedDropsPending(d, fragment) == fragment

\* data = data + ser.read_all().decode(...)
Feed(d, fragment) == d \o fragment

\* nl = data.find('\n'); nl >= 0
HasLine(d) == Find(d, LF) > 0

\* line = data[:nl], then the two replace calls
ExtractLine(d) == ReplaceCR(ReplaceCRLF(SubSeq(d, 1, Find(d, LF) - 1)))

\* the text after the first line is thrown away with it
RemainderDropped(d) == << >>

\* data = data[nl + 1:]
Remainder(d) == SubSeq(d, Find(d, LF) + 1, Len(d))

-----------------------------------------------------------------------------
(* plugins/ESP32.py *)

\* s[a:b] of Python
Slice(s, a, b) == SubSeq(s, a + 1, IF b < Len(s) THEN b ELSE Len(s))

IsSep(c) == c \in {" ", ":"}

FindSep(s) ==
    IF \E i \in 1..Len(s) : IsSep(s[i])
    THEN CHOOSE i \in 1..Len(s) : IsSep(s[i]) /\ \A j \in 1..(i - 1) : ~IsSep(s[j])
    ELSE 0

\* re.split(' |:', x)
RECURSIVE Split(_)
Split(s) ==
    LET i == FindSep(s)
    IN  IF i = 0 THEN <<s>>
        ELSE <<SubSeq(s, 1, i - 1)>> \o Split(SubSeq(s, i + 1, Len(s)))

\* tokens[2] = tmp[0:10]; tokens.insert(3, tmp[10:20])   (0-based indices)
Repair(tokens) ==
    LET tmp == tokens[3]
    IN  SubSeq(tokens, 1, 2) \o <<Slice(tmp, 0, 10), Slice(tmp, 10, 20)>>
          \o SubSeq(tokens, 4, Len(tokens))

\* the loop runs up to the last token
ResolveIndicesToLast(tokens) == {i \in 1..(Len(tokens) - 1) : i % 2 # 0}

\* the loop with the parity of its test inverted
ResolveIndicesEven(tokens) == {i \in 1..(Len(tokens) - 2) : i % 2 = 0}

\* for i in range(1, len(tokens) - 1): if i % 2 == 0: continue
\* the 0-based indices i whose token goes to the resolver
ResolveIndices(tokens) == {i \in 1..(Len(tokens) - 2) : i % 2 # 0}

\* the resolver calls of the loop, in loop order: the 0-based index and tokens[i]
RECURSIVE TokensAt(_, _, _)
TokensAt(tokens, I, from) ==
    IF from > Len(tokens) - 1 THEN << >>
    ELSE (IF from \in I THEN <<[i |-> from, addr |-> tokens[from + 1]]>> ELSE << >>)
           \o TokensAt(tokens, I, from + 1)

\* __print_backtrace(x, elf_name): the outcome and the resolver's arguments, in order
PrintBacktrace(x, ok) ==
    LET tokens == Split(x)
    IN  IF Len(tokens) < 3
        THEN [out |-> "raise", error |-> "IndexError", resolved |-> << >>]
        ELSE LET addrs == TokensAt(Repair(tokens), ResolveIndices(Repair(tokens)), 0)
             IN  IF ok \/ addrs = << >>
                 THEN [out |-> "claim", error |-> "none", resolved |-> addrs]
                 ELSE [out |-> "raise", error |-> "FileNotFoundError",
                       resolved |-> <<Head(addrs)>>]

\* monitor_plugin_filter(line, extra_args)
MonitorPluginFilter(ln, args, ok) ==
    IF StartsWith(ln, Chars("Guru Meditation Error"))
    THEN [out |-> "claim", error |-> "none", resolved |-> << >>]
    ELSE IF StartsWith(ln, Chars("Backtrace"))
         THEN IF "elf" \notin DOMAIN args
              THEN [out |-> "raise", error |-> "KeyError", resolved |-> << >>]
              ELSE IF args["elf"] # "None"      \* elf_name is not None
                   THEN PrintBacktrace(ln, ok)
                   ELSE [out |-> "claim", error |-> "none", resolved |-> << >>]
         ELSE [out |-> "decline", error |-> "none", resolved |-> << >>]

-----------------------------------------------------------------------------
(* Filters supplied by configuration.  "ESP32" is the reference plugin; the  *)
(* others stand for plugins of the operator: A claims the lines that start   *)
(* with "X", B claims every line, R raises.                                  *)

FilterKinds == {"A", "B", "R"}

\* pf(line, extra_args)
CallFilter(kind, ln, args, ok) ==
    CASE kind = "A" ->
           [out |-> IF StartsWith(ln, Chars("X")) THEN "claim" ELSE "decline",
            error |-> "none", resolved |-> << >>]
      [] kind = "B" -> [out |-> "claim", error |-> "none", resolved |-> << >>]
      [] kind = "R" -> [out |-> "raise", error |-> "RuntimeError", resolved |-> << >>]
      [] kind = "ESP32" -> MonitorPluginFilter(ln, args, ok)

-----------------------------------------------------------------------------
(* Keystrokes: run_interactive lines 103-113 *)

BACKSPACE == "DEL"      \* byte 127
ENTER == "\n"
NoByte == "None"        \* sys.stdin.buffer.read(1) found nothing to read

KeyBytes == {BACKSPACE, ENTER, "a", "ESC", "C3"}

\* str(b''.join([c]), "utf-8") succeeds: a lone byte decodes iff it is ASCII
Decodable(c) == c \notin {"C3", "A9"}

\* str.isprintable() of a one-character ASCII string
IsPrintable(c) == c \notin {"DEL", "ESC", "\n", "\r", "\t"}

-----------------------------------------------------------------------------
(* The session: main, run_interactive, read_serial, run_noninteractive *)

\* An exception e leaves the loop.  run_interactive: the try statement of
\* line 97 runs its finally block.  run_noninteractive: the exception reaches
\* main, whose "except Exception" (line 243) does not catch KeyboardInterrupt.
RaiseTo(e) ==
    IF interactive THEN "finally"
    ELSE IF e = "KeyboardInterrupt" THEN "uncaught" ELSE "except"

\* what a path of --plugins leads to: a module with a filter (FilterKinds), no
\* file, or a module without monitor_plugin_filter
PluginKinds == FilterKinds \cup {"missing", "nofunc"}

\* load_function_if_exists line 29: path.exists()
PathExists(p) == p # "missing"

\* the test of func left out
HasFilterAlways(p) == TRUE

\* load_function_if_exists line 37 and load_all_plugin_filters line 46:
\* getattr(module, funcname, None) gave a function
HasFilter(p) == p # "nofunc"

\* main line 214, load_all_plugin_filters lines 43-49: one turn of the for loop
\* over args.plugins.  Line 214 is outside every try statement of main: an
\* exception raised here leaves main.
LoadStep ==
    /\ pc = "load"
    /\ LET i == Len(plugin_filters) + 1
       IN  IF i > Len(plugins)
           THEN /\ pc' = "open"
                /\ UNCHANGED << plugin_filters, blamed, exc >>
           ELSE IF ~PathExists(plugins[i])
           THEN /\ exc' = "FileNotFoundError"
                /\ blamed' = i
                /\ pc' = "uncaught"
                /\ UNCHANGED plugin_filters
           ELSE IF ~HasFilter(plugins[i])
           THEN /\ exc' = "Exception"
                /\ blamed' = i
                /\ pc' = "uncaught"
                /\ UNCHANGED plugin_filters
           ELSE /\ plugin_filters' = Append(plugin_filters, plugins[i])
                /\ pc' = "load"
                /\ UNCHANGED << blamed, exc >>
    /\ UNCHANGED << plugins, opened, drained >>
    /\ UNCHANGED << interactive, dumpOn, extra_args, addr2line_ok,
                    wire, keys, typed, received, data, framed, queue, line, fi, accepted,
                    dump, offered, calls, printed, resolved, buf, sent, term,
                    saved, ret, message >>

\* main lines 217-227: ser.open(); a failure is reported and main returns -1
OpenStep ==
    /\ pc = "open"
    /\ \E ok \in BOOLEAN :
         IF ok
         THEN /\ opened' = Append(opened, "serial")
              /\ pc' = "dumpopen"
              /\ UNCHANGED ret
         ELSE /\ ret' = "-1"
              /\ pc' = "done"
              /\ UNCHANGED opened
    /\ UNCHANGED << plugins, blamed, drained >>
    /\ UNCHANGED << interactive, dumpOn, plugin_filters, extra_args, addr2line_ok,
                    wire, keys, typed, received, data, framed, queue, line, fi, accepted,
                    dump, offered, calls, printed, resolved, buf, sent, term,
                    saved, exc, message >>

\* main lines 229-236: the dump file, if one is asked for, is opened and
\* truncated; a failure is reported and main returns -1
DumpOpenStep ==
    /\ pc = "dumpopen"
    /\ IF dumpOn
       THEN \E ok \in BOOLEAN :
              IF ok
              THEN /\ opened' = Append(opened, "dumpfile")
                   /\ pc' = "start"
                   /\ UNCHANGED ret
              ELSE /\ ret' = "-1"
                   /\ pc' = "done"
                   /\ UNCHANGED opened
       ELSE /\ pc' = "start"
            /\ UNCHANGED << opened, ret >>
    /\ UNCHANGED << plugins, blamed, drained >>
    /\ UNCHANGED << interactive, dumpOn, plugin_filters, extra_args, addr2line_ok,
                    wire, keys, typed, received, data, framed, queue, line, fi, accepted,
                    dump, offered, calls, printed, resolved, buf, sent, term,
                    saved, exc, message >>

\* main lines 238-242 and run_interactive lines 85-100
Start ==
    /\ pc = "start"
    /\ IF interactive
       THEN /\ saved' = term
            /\ term' = [attrs |-> "cbreak", nonblock |-> TRUE]
            /\ pc' = "key"
       ELSE /\ pc' = "read"
            /\ UNCHANGED << saved, term >>
    /\ UNCHANGED << plugins, opened, blamed, drained >>
    /\ UNCHANGED << interactive, dumpOn, plugin_filters, extra_args, addr2line_ok,
                    wire, keys, typed, received, data, framed, queue, line, fi, accepted,
                    dump, offered, calls, printed, resolved, buf, sent, exc, ret,
                    message >>

\* a LIFO hand-off: the line is put at the head of the queue
QueuePutFront(q, ln) == <<ln>> \o q

\* the line is handed over twice
QueuePutTwice(q, ln) == q \o <<ln, ln>>

\* queue.put(line)
QueuePut(q, ln) == Append(q, ln)

\* read_serial: one iteration of its loop (the thread lives as long as the process)
PumpStep ==
    /\ interactive
    /\ pc \notin {"load", "open", "dumpopen", "start", "uncaught", "done"}
    /\ \E n \in 0..Len(wire) :
         LET fragment == Decode(SubSeq(wire, 1, n))
             d == Feed(data, fragment)
         IN  /\ wire' = SubSeq(wire, n + 1, Len(wire))
             /\ received' = received \o fragment
             /\ IF HasLine(d)
                THEN /\ queue' = QueuePut(queue, ExtractLine(d))
                     /\ framed' = Append(framed, ExtractLine(d))
                     /\ data' = Remainder(d)
                ELSE /\ data' = d
                     /\ UNCHANGED << queue, framed >>
    /\ UNCHANGED << plugins, opened, blamed, drained >>
    /\ UNCHANGED << interactive, dumpOn, plugin_filters, extra_args, addr2line_ok,
                    keys, typed, pc, line, fi, accepted, dump, offered, calls, printed,
                    resolved, buf, sent, term, saved, exc, ret, message >>

\* the first byte is removed
PopFirst(b) == Tail(b)

\* line 106: buf.pop(-1)
Pop(b) == SubSeq(b, 1, Len(b) - 1)

\* the command goes out without its newline
SubmitBare(b) == b

\* lines 109-110: buf.append(b'\n'); the bytes of ser.write(bytes(b''.join(buf)))
Submit(b) == Append(b, ENTER)

\* run_interactive lines 103-113: one non-blocking read of standard input
KeyStep ==
    /\ pc = "key"
    /\ \E c \in {NoByte} \cup (IF keys = << >> THEN {} ELSE {Head(keys)}) :
         /\ keys' = IF c = NoByte THEN keys ELSE Tail(keys)
         /\ typed' = IF c = NoByte THEN typed ELSE Append(typed, c)
         /\ IF c = NoByte
            THEN /\ pc' = "poll"
                 /\ UNCHANGED << buf, sent, exc >>
            ELSE IF c = BACKSPACE /\ Len(buf) >= 1
            THEN /\ buf' = Pop(buf)
                 /\ pc' = "poll"
                 /\ UNCHANGED << sent, exc >>
            ELSE IF c = ENTER
            THEN /\ sent' = Append(sent, Submit(buf))
                 /\ buf' = << >>
                 /\ pc' = "poll"
                 /\ UNCHANGED exc
            ELSE IF ~Decodable(c)
            THEN /\ exc' = "UnicodeDecodeError"
                 /\ pc' = RaiseTo("UnicodeDecodeError")
                 /\ UNCHANGED << buf, sent >>
            ELSE IF IsPrintable(c)
            THEN /\ buf' = Append(buf, c)
                 /\ pc' = "poll"
                 /\ UNCHANGED << sent, exc >>
            ELSE /\ pc' = "poll"
                 /\ UNCHANGED << buf, sent, exc >>
    /\ drained' = 0
    /\ UNCHANGED << plugins, opened, blamed >>
    /\ UNCHANGED << interactive, dumpOn, plugin_filters, extra_args, addr2line_ok,
                    wire, received, data, framed, queue, line, fi, accepted, dump,
                    offered, calls, printed, resolved, term, saved, ret, message >>

\* get_nowait is called without the test of queue.empty()
PollStepNoCheck ==
    /\ pc = "poll"
    /\ pc' = "get"
    /\ UNCHANGED << plugins, opened, blamed, drained >>
    /\ UNCHANGED << interactive, dumpOn, plugin_filters, extra_args, addr2line_ok,
                    wire, keys, typed, received, data, framed, queue, line, fi, accepted,
                    dump, offered, calls, printed, resolved, buf, sent, term,
                    saved, exc, ret, message >>

\* run_interactive line 118: queue.empty() == False
PollStep ==
    /\ pc = "poll"
    /\ pc' = IF queue # << >> THEN "get" ELSE "key"
    /\ UNCHANGED << plugins, opened, blamed, drained >>
    /\ UNCHANGED << interactive, dumpOn, plugin_filters, extra_args, addr2line_ok,
                    wire, keys, typed, received, data, framed, queue, line, fi, accepted,
                    dump, offered, calls, printed, resolved, buf, sent, term,
                    saved, exc, ret, message >>

\* run_interactive line 119: line = queue.get_nowait()
GetStep ==
    /\ pc = "get"
    /\ IF queue = << >>
       THEN /\ exc' = "Empty"
            /\ pc' = RaiseTo("Empty")
            /\ UNCHANGED << queue, line >>
       ELSE /\ line' = Head(queue)
            /\ queue' = Tail(queue)
            /\ pc' = "dump"
            /\ UNCHANGED exc
    /\ drained' = IF queue = << >> THEN drained ELSE drained + 1
    /\ UNCHANGED << plugins, opened, blamed >>
    /\ UNCHANGED << interactive, dumpOn, plugin_filters, extra_args, addr2line_ok,
                    wire, keys, typed, received, data, framed, fi, accepted, dump,
                    offered, calls, printed, resolved, buf, sent, term, saved,
                    ret, message >>

\* run_noninteractive lines 145-152: read, find the first newline, cut the line
ReadStep ==
    /\ pc = "read"
    /\ \E n \in 0..Len(wire) :
         LET fragment == Decode(SubSeq(wire, 1, n))
             d == Feed(data, fragment)
         IN  /\ wire' = SubSeq(wire, n + 1, Len(wire))
             /\ received' = received \o fragment
             /\ data' = d
             /\ IF HasLine(d)
                THEN /\ line' = ExtractLine(d)
                     /\ framed' = Append(framed, ExtractLine(d))
                     /\ pc' = "dump"
                ELSE /\ pc' = "read"
                     /\ UNCHANGED << line, framed >>
    /\ UNCHANGED << plugins, opened, blamed, drained >>
    /\ UNCHANGED << interactive, dumpOn, plugin_filters, extra_args, addr2line_ok,
                    keys, typed, queue, fi, accepted, dump, offered, calls, printed,
                    resolved, buf, sent, term, saved, exc, ret, message >>

\* run_noninteractive line 166: data = data[nl + 1:]
AdvanceStep ==
    /\ pc = "advance"
    /\ data' = Remainder(data)
    /\ pc' = "read"
    /\ UNCHANGED << plugins, opened, blamed, drained >>
    /\ UNCHANGED << interactive, dumpOn, plugin_filters, extra_args, addr2line_ok,
                    wire, keys, typed, received, framed, queue, line, fi, accepted, dump,
                    offered, calls, printed, resolved, buf, sent, term, saved,
                    exc, ret, message >>

\* the tee left out
DumpWriteSkip(file, ln) == file

\* dumpfile.write(line): the file after the write
DumpWrite(file, ln) == Append(file, ln)

\* lines 121-122 and 154-155: if dumpfile is not None: dumpfile.write(line)
DumpStep ==
    /\ pc = "dump"
    /\ dump' = IF dumpOn THEN DumpWrite(dump, line) ELSE dump
    /\ pc' = "begin"
    /\ UNCHANGED << plugins, opened, blamed, drained >>
    /\ UNCHANGED << interactive, dumpOn, plugin_filters, extra_args, addr2line_ok,
                    wire, keys, typed, received, data, framed, queue, line, fi, accepted,
                    offered, calls, printed, resolved, buf, sent, term, saved,
                    exc, ret, message >>

\* lines 124-125 and 157-158: accepted = False; the for loop starts
BeginStep ==
    /\ pc = "begin"
    /\ accepted' = FALSE
    /\ fi' = 1
    /\ offered' = Append(offered, line)
    /\ pc' = "filter"
    /\ UNCHANGED << plugins, opened, blamed, drained >>
    /\ UNCHANGED << interactive, dumpOn, plugin_filters, extra_args, addr2line_ok,
                    wire, keys, typed, received, data, framed, queue, line, dump, calls,
                    printed, resolved, buf, sent, term, saved, exc, ret, message >>

\* the filter the for loop calls at position i (1-based) of the chain
NextFilter(chain, i) == chain[i]

\* the loop without its break
LoopExitNever(claimed) == FALSE

\* if accepted: break
LoopExit(claimed) == claimed

\* lines 125-128 and 158-161: one turn of the for loop over plugin_filters
FilterStep ==
    /\ pc = "filter"
    /\ IF fi > Len(plugin_filters)
       THEN /\ pc' = "print"
            /\ UNCHANGED << fi, accepted, calls, resolved, exc >>
       ELSE LET r == CallFilter(NextFilter(plugin_filters, fi), line, extra_args,
                                addr2line_ok)
            IN  /\ resolved' = resolved \o r.resolved
                /\ IF r.out = "raise"
                   THEN /\ exc' = r.error
                        /\ pc' = RaiseTo(r.error)
                        /\ UNCHANGED << fi, accepted, calls >>
                   ELSE /\ accepted' = (r.out = "claim")
                        /\ calls' = Append(calls, [ln |-> Len(offered), f |-> fi,
                                                   claimed |-> r.out = "claim"])
                        /\ fi' = fi + 1
                        /\ pc' = IF LoopExit(r.out = "claim") THEN "print" ELSE "filter"
                        /\ UNCHANGED exc
    /\ UNCHANGED << plugins, opened, blamed, drained >>
    /\ UNCHANGED << interactive, dumpOn, plugin_filters, extra_args, addr2line_ok,
                    wire, keys, typed, received, data, framed, queue, line, dump, offered,
                    printed, buf, sent, term, saved, ret, message >>

\* the interactive loop goes back to the queue after a line
AfterLineDrain(mode) == IF mode THEN "poll" ELSE "advance"

\* where the loop goes after a line: run_interactive lines 133-135 and back to
\* the read of line 103; run_noninteractive line 166
AfterLine(mode) == IF mode THEN "key" ELSE "advance"

\* the print without its condition
UnclaimedAlways(a) == TRUE

\* if accepted == False
Unclaimed(a) == a = FALSE

\* lines 130-131 and 163-164: if accepted == False: print(line)
PrintStep ==
    /\ pc = "print"
    /\ printed' = IF Unclaimed(accepted)
                  THEN Append(printed, [ln |-> Len(offered), text |-> line])
                  ELSE printed
    /\ pc' = AfterLine(interactive)
    /\ UNCHANGED << plugins, opened, blamed, drained >>
    /\ UNCHANGED << interactive, dumpOn, plugin_filters, extra_args, addr2line_ok,
                    wire, keys, typed, received, data, framed, queue, line, fi, accepted,
                    dump, offered, calls, resolved, buf, sent, term, saved, exc,
                    ret, message >>

\* Ctrl-C: KeyboardInterrupt is raised in the main thread
Interrupt ==
    /\ pc \in {"key", "poll", "get", "dump", "begin", "filter", "print", "read",
               "advance"}
    /\ exc' = "KeyboardInterrupt"
    /\ pc' = RaiseTo("KeyboardInterrupt")
    /\ UNCHANGED << plugins, opened, blamed, drained >>
    /\ UNCHANGED << interactive, dumpOn, plugin_filters, extra_args, addr2line_ok,
                    wire, keys, typed, received, data, framed, queue, line, fi, accepted,
                    dump, offered, calls, printed, resolved, buf, sent, term,
                    saved, ret, message >>

\* termios.tcsetattr(fd, termios.TCSADRAIN, old_settings)
Restore(t, old) == [t EXCEPT !.attrs = old.attrs]

\* run_interactive lines 136-139 and main line 240: the finally block restores
\* the terminal attributes and returns 0, which discards the exception
FinallyStep ==
    /\ pc = "finally"
    /\ term' = Restore(term, saved)
    /\ ret' = "0"
    /\ pc' = "done"
    /\ UNCHANGED << plugins, opened, blamed, drained >>
    /\ UNCHANGED << interactive, dumpOn, plugin_filters, extra_args, addr2line_ok,
                    wire, keys, typed, received, data, framed, queue, line, fi, accepted,
                    dump, offered, calls, printed, resolved, buf, sent, saved,
                    exc, message >>

\* main lines 243-245: print(f"Terminated: {ex}"); return -1
ExceptStep ==
    /\ pc = "except"
    /\ message' = TRUE
    /\ ret' = "-1"
    /\ pc' = "done"
    /\ UNCHANGED << plugins, opened, blamed, drained >>
    /\ UNCHANGED << interactive, dumpOn, plugin_filters, extra_args, addr2line_ok,
                    wire, keys, typed, received, data, framed, queue, line, fi, accepted,
                    dump, offered, calls, printed, resolved, buf, sent, term,
                    saved, exc >>

\* main lines 248-250: KeyboardInterrupt leaves main; the interpreter reports it
UncaughtStep ==
    /\ pc = "uncaught"
    /\ ret' = "uncaught"
    /\ pc' = "done"
    /\ UNCHANGED << plugins, opened, blamed, drained >>
    /\ UNCHANGED << interactive, dumpOn, plugin_filters, extra_args, addr2line_ok,
                    wire, keys, typed, received, data, framed, queue, line, fi, accepted,
                    dump, offered, calls, printed, resolved, buf, sent, term,
                    saved, exc, message >>

MainStep ==
    \/ Start
    \/ KeyStep
    \/ PollStep
    \/ GetStep
    \/ ReadStep
    \/ AdvanceStep
    \/ DumpStep
    \/ BeginStep
    \/ FilterStep
    \/ PrintStep
    \/ FinallyStep
    \/ ExceptStep
    \/ UncaughtStep

Next == MainStep \/ PumpStep \/ Interrupt

-----------------------------------------------------------------------------
(* Initial states *)

NoArgs == << >>                        \* extra_args == {}
ElfArgs == [k \in {"elf"} |-> "app.elf"]

\* nothing has happened in the session
Fresh ==
    /\ blamed = 0
    /\ typed = << >>
    /\ received = << >>
    /\ data = << >>
    /\ framed = << >>
    /\ queue = << >>
    /\ drained = 0
    /\ line = << >>
    /\ fi = 1
    /\ accepted = FALSE
    /\ dump = << >>
    /\ offered = << >>
    /\ calls = << >>
    /\ printed = << >>
    /\ resolved = << >>
    /\ buf = << >>
    /\ sent = << >>
    /\ term = [attrs |-> "cooked", nonblock |-> FALSE]
    /\ saved = [attrs |-> "cooked", nonblock |-> FALSE]
    /\ exc = "none"
    /\ ret = "none"
    /\ message = FALSE

\* the state main is in when it enters line 238: every plugin is loaded, the
\* serial port is open, and so is the dump file if there is one
InitWith(modes, dumps, chains, argsets, oks, streams, scripts) ==
    /\ interactive \in modes
    /\ dumpOn \in dumps
    /\ plugin_filters \in chains
    /\ plugins = plugin_filters
    /\ opened = <<"serial">> \o (IF dumpOn THEN <<"dumpfile">> ELSE << >>)
    /\ extra_args \in argsets
    /\ addr2line_ok \in oks
    /\ wire \in streams
    /\ keys \in scripts
    /\ pc = "start"
    /\ Fresh

\* the lines of the device in a session, each sent with its newline
WireLines == {Chars("X1"), Chars("Y1")}
SessionStreams ==
    {Concat([i \in 1..Len(ls) |-> Append(ls[i], LF)]) : ls \in SeqsUpTo(WireLines, MaxLines)}

Chains == SeqsUpTo(FilterKinds, MaxFilters)

\* what the operator types in a session: nothing, a command, a byte that is
\* not valid text on its own
SessionScripts == {<< >>, <<"a", ENTER>>, <<"C3">>}

Init ==
    InitWith(BOOLEAN, BOOLEAN, Chains, {NoArgs}, {TRUE}, SessionStreams,
             SessionScripts)

Spec == Init /\ [][Next]_vars

-----------------------------------------------------------------------------
(* Properties of the session *)

X1 == Chars("X1")
Y1 == Chars("Y1")

\* the main thread has left the session loop
Stopped == pc \in {"finally", "except", "uncaught", "done"}

\* the line the consumer holds between get_nowait and the start of dispatch
InFlight == IF pc \in {"dump", "begin"} THEN <<line>> ELSE << >>

\* C1: in interactive mode the lines offered to the filter chain are the lines
\* pushed by read_serial, in push order, none twice and none that was not
\* pushed: the offered lines are a prefix of the pushed ones, and while the
\* loop runs, offered lines + line in hand + queue are exactly the pushed lines.
C1_FifoOrder ==
    interactive =>
        /\ IsPrefix(offered, framed)
        /\ ~Stopped => offered \o InFlight \o queue = framed

\* a line was offered while a different line, pushed later, waits in the queue
C1_Witness ==
    /\ interactive
    /\ offered = <<X1>>
    /\ queue = <<Y1>>

CallsOf(i) == {k \in 1..Len(calls) : calls[k].ln = i}
Claimed(i) == \E k \in CallsOf(i) : calls[k].claimed
AllDeclined(i) ==
    /\ Cardinality(CallsOf(i)) = Len(plugin_filters)
    /\ \A k \in CallsOf(i) : ~calls[k].claimed

\* C5: the filters are invoked in registration order, each at most once per
\* line; a filter is invoked only after every earlier filter declined that
\* line, so nothing is invoked after a claim.  With the chain [A, B], "X1" is
\* handled by A alone, and "Y1" is declined by A before B handles it.
C5_ShortCircuit ==
    /\ \A k \in 1..Len(calls) :
         /\ calls[k].ln \in 1..Len(offered)
         /\ calls[k].f \in 1..Len(plugin_filters)
         /\ IF k > 1 /\ calls[k - 1].ln = calls[k].ln
            THEN calls[k].f = calls[k - 1].f + 1 /\ ~calls[k - 1].claimed
            ELSE calls[k].f = 1 /\ (k > 1 => calls[k - 1].ln < calls[k].ln)
    /\ plugin_filters = <<"A", "B">> =>
         \A k \in 1..Len(calls) :
            /\ offered[calls[k].ln] = X1 => calls[k].f = 1 /\ calls[k].claimed
            /\ offered[calls[k].ln] = Y1 => calls[k].claimed = (calls[k].f = 2)

\* chain [A, B]: "X1" went to A only, "Y1" to A and then B
C5_Witness ==
    /\ plugin_filters = <<"A", "B">>
    /\ offered = <<X1, Y1>>
    /\ calls = << [ln |-> 1, f |-> 1, claimed |-> TRUE],
                  [ln |-> 2, f |-> 1, claimed |-> FALSE],
                  [ln |-> 2, f |-> 2, claimed |-> TRUE] >>

PrintsOf(i) == {k \in 1..Len(printed) : printed[k].ln = i}

\* the dispatch of offered line i is over and the loop went on
PastPrint(i) ==
    \/ i < Len(offered)
    \/ i = Len(offered) /\ pc \in {"key", "poll", "get", "read", "advance", "dump", "begin"}

\* C6: a dispatched line is printed by the driver exactly once when every
\* filter declined it (every line when the chain is empty), the print shows
\* the line itself, and a line some filter claimed is never printed; no line
\* is printed twice.
C6_DefaultPrint ==
    \A i \in 1..Len(offered) :
        /\ Cardinality(PrintsOf(i)) <= 1
        /\ Claimed(i) => PrintsOf(i) = {}
        /\ \A k \in PrintsOf(i) : AllDeclined(i) /\ printed[k].text = offered[i]
        /\ AllDeclined(i) /\ PastPrint(i) => Cardinality(PrintsOf(i)) = 1

\* chain [A]: "X1" was claimed and not printed, "Y1" was declined and printed
C6_Witness ==
    /\ plugin_filters = <<"A">>
    /\ offered = <<X1, Y1>>
    /\ printed = << [ln |-> 2, text |-> Y1] >>
    /\ Claimed(1)

\* every line is printed when there are no filters
C6_WitnessEmptyChain ==
    /\ plugin_filters = << >>
    /\ Len(offered) = 2
    /\ Len(printed) = 2

\* C7: with a dump file, in both modes a line is written to the dump before
\* it is offered to a filter: the lines offered to the chain are at every
\* moment a prefix of the lines written, at most the line in hand is written
\* and not yet offered, and every filter call is for a line already written.
C7_DumpTee ==
    dumpOn =>
        /\ IsPrefix(offered, dump)
        /\ Len(dump) <= Len(offered) + 1
        /\ \A k \in 1..Len(calls) : dump[calls[k].ln] = offered[calls[k].ln]

\* "X1" was claimed by A, then R raised on "Y1"; both are in the dump
C7_Witness ==
    /\ dumpOn
    /\ plugin_filters = <<"A", "R">>
    /\ dump = <<X1, Y1>>
    /\ Claimed(1)
    /\ exc = "RuntimeError"
    /\ pc = "done"

\* C8: when run_interactive has returned, the terminal attributes and the
\* O_NONBLOCK flag of standard input are what they were before the session.
C8_TerminalRestored ==
    (interactive /\ pc = "done") => term = saved

\* C9: an error raised inside the session loop (not Ctrl-C) makes main print
\* "Terminated: ..." and return nonzero; 0 is returned only by an interactive
\* session that ended without an error.
C9_FatalErrorReported ==
    pc = "done" =>
        /\ exc \notin {"none", "KeyboardInterrupt"} => message /\ ret # "0"
        /\ ret = "0" => interactive /\ exc \in {"none", "KeyboardInterrupt"}

-----------------------------------------------------------------------------
(* Liveness of the hand-off *)

\* Both threads keep running: the reader thread and the main loop are
\* scheduled again and again (each sleeps 10 ms per turn and wakes up).
\* The sessions checked for liveness: both modes, a dump file, no filter or
\* one, a silent operator.
FairInit ==
    InitWith(BOOLEAN, {TRUE}, {<< >>} \cup {<<f>> : f \in FilterKinds}, {NoArgs},
             {TRUE}, SessionStreams, {<< >>})

FairSpec == FairInit /\ [][Next]_vars /\ WF_vars(PumpStep) /\ WF_vars(MainStep)

\* the newline-terminated lines of a text, each as the framer normalizes it
RECURSIVE RefLines(_)
RefLines(text) ==
    LET nl == Find(text, LF)
    IN  IF nl = 0 THEN << >>
        ELSE <<ReplaceCR(ReplaceCRLF(SubSeq(text, 1, nl - 1)))>>
               \o RefLines(SubSeq(text, nl + 1, Len(text)))

\* C2: the lines offered to the filter chain are always the first lines that
\* arrived, each once; and while the reader thread and the main loop keep
\* taking steps, the k-th newline-terminated line that arrived on the
\* transport is eventually offered to the filter chain, unless the session
\* loop ends first (a filter raises, the operator interrupts).  Several lines
\* delivered by one read are extracted one per turn of the reader.
C2_NoLineDropped ==
    /\ [](IsPrefix(offered, RefLines(received)))
    /\ \A k \in 1..MaxLines :
         (Len(RefLines(received)) >= k)
            ~> (Stopped \/ (Len(offered) >= k /\ offered[k] = RefLines(received)[k]))

\* the first line has been offered while the reader still holds a second
\* complete line in its buffer: one read had delivered both (a turn of the
\* reader that starts with no newline in the buffer and ends with one has
\* read two)
C2_Witness ==
    /\ interactive
    /\ ~Stopped
    /\ offered = <<X1>>
    /\ HasLine(data)
    /\ RefLines(received) = <<X1, Y1>>

-----------------------------------------------------------------------------
(* The framer on arbitrary byte streams *)

WireBytes == {"a", CR, LF, "C3", "A9"}
Hello == Chars("hello\r\nworld\n")
FramerStreams == SeqsUpTo(WireBytes, MaxStream) \cup {Hello}

\* sessions without filters, dump file, operator input or interrupt: the byte
\* stream is cut into reads in every possible way
FramerInit ==
    InitWith(BOOLEAN, {FALSE}, {<< >>}, {NoArgs}, {TRUE}, FramerStreams, {<< >>})

FramerNext ==
    \/ Start
    \/ PumpStep
    \/ KeyStep
    \/ PollStep
    \/ GetStep
    \/ ReadStep
    \/ AdvanceStep
    \/ DumpStep
    \/ BeginStep
    \/ FilterStep
    \/ PrintStep

SpecFramer == FramerInit /\ [][FramerNext]_vars

\* the text after the last newline of a text
RECURSIVE RefRest(_)
RefRest(text) ==
    LET nl == Find(text, LF)
    IN  IF nl = 0 THEN text ELSE RefRest(SubSeq(text, nl + 1, Len(text)))

\* every byte has been read and no complete line is left in the buffer
AllConsumed == wire = << >> /\ ~HasLine(data)

\* C3: whatever the cut of the text into fragments, the lines framed so far
\* are the first lines of the whole text received, and once all input has been
\* consumed they are exactly the lines of that text, with the unterminated
\* rest still in the buffer: the result depends on the text only.
C3_ChunkIndependence ==
    /\ IsPrefix(framed, RefLines(received))
    /\ AllConsumed =>
          /\ framed = RefLines(received)
          /\ data = RefRest(received)

\* "hello\r\nworld\n" has been consumed, in some cut, and gave two lines
C3_Witness ==
    /\ AllConsumed
    /\ received = Hello
    /\ Len(framed) = 2
    /\ framed[2] = Chars("world")

\* C4: no emitted line contains a carriage return or a newline, and
\* "hello\r\nworld\n" yields exactly the lines "hello" and "world".
C4_CRNormalized ==
    /\ \A i \in 1..Len(framed) : \A j \in 1..Len(framed[i]) : framed[i][j] \notin {CR, LF}
    /\ (AllConsumed /\ received = Hello) => framed = <<Chars("hello"), Chars("world")>>

\* what the code makes of "hello\r\nworld\n"
C4_HelloAsFramed ==
    (AllConsumed /\ received = Hello) => framed = <<Chars("hello\n"), Chars("world")>>

-----------------------------------------------------------------------------
(* The backtrace decoder in a session *)

Glued == Chars("0x400822a00x4008d321")
FirstHalf == Chars("0x400822a0")
SecondHalf == Chars("0x4008d321")
FirstPC == Chars("0x40081111")

Digits == Chars("0123456789")

\* " 0x400d000n:0x3ffb00n0": one more frame of the backtrace
Frame(n) ==
    Chars(" 0x400d000") \o <<Digits[n + 1]>> \o Chars(":0x3ffb00") \o <<Digits[n + 1]>>
        \o Chars("0")

RECURSIVE Frames(_)
Frames(n) == IF n = 0 THEN << >> ELSE Frames(n - 1) \o Frame(n)

\* backtrace lines whose third token is the glued pair: the pair is the last
\* token, or a stack pointer and up to MaxFrames frames follow
BacktraceLines ==
    {Chars("Backtrace:") \o FirstPC \o Chars(":") \o Glued}
        \cup {Chars("Backtrace:") \o FirstPC \o Chars(":") \o Glued \o Chars(":0x3ffb0020")
                \o Frames(n) : n \in 0..MaxFrames}

DecoderLines ==
    BacktraceLines
        \cup {Chars("Backtrace"), Chars("Guru Meditation Error: Core 0 panic"), Chars("boot ok")}

\* each line is sent with "\n" or with "\r\n"
DecoderStreams ==
    {Append(ln, LF) : ln \in DecoderLines} \cup {ln \o <<CR, LF>> : ln \in BacktraceLines}

\* sessions whose only filter is the reference plugin
DecoderInit ==
    InitWith(BOOLEAN, {FALSE}, {<<"ESP32">>}, {NoArgs, ElfArgs}, BOOLEAN,
             DecoderStreams, {<< >>})

SpecDecoder == DecoderInit /\ [][Next]_vars

\* the plugin has returned for a line whose third token is the glued pair
\* (it returns only if the symbol file was supplied and the resolver ran)
GluedLineDecoded ==
    /\ calls # << >>
    /\ Len(Split(offered[1])) >= 3
    /\ Split(offered[1])[3] = Glued

\* C10 as stated: the resolver is invoked on both halves of the glued token,
\* first "0x400822a0", then "0x4008d321".
C10_BothHalvesResolved ==
    GluedLineDecoded =>
        \E j, k \in 1..Len(resolved) :
            /\ j < k
            /\ resolved[j].addr = FirstHalf
            /\ resolved[k].addr = SecondHalf

\* C10, amended: the decoder splits the glued token into "0x400822a0" and
\* "0x4008d321", which become tokens 2 and 3; the resolver is never invoked on
\* the first half (an even index), and it is invoked on the second half, right
\* after the token of index 1, exactly when a further token follows the pair.
C10_SecondHalfResolved ==
    GluedLineDecoded =>
        LET tokens == Split(offered[1])
            more == Len(tokens) >= 4
        IN  /\ \A k \in 1..Len(resolved) :
                 resolved[k].i # 2 /\ resolved[k].addr # FirstHalf
            /\ resolved # << >> /\ resolved[1] = [i |-> 1, addr |-> FirstPC]
            /\ more <=> (Len(resolved) >= 2 /\ resolved[2] = [i |-> 3, addr |-> SecondHalf])
            /\ ~more => Len(resolved) = 1

\* the resolver ran on the second half of the pair
C10_Witness ==
    /\ GluedLineDecoded
    /\ Len(resolved) = 3
    /\ resolved[2] = [i |-> 3, addr |-> SecondHalf]

-----------------------------------------------------------------------------
(* A backtrace line without a symbol file *)

\* the first line of the session starts with the backtrace sentinel and
\* extra_args holds no ELF path
BacktraceWithoutElf ==
    /\ offered # << >>
    /\ StartsWith(offered[1], Chars("Backtrace"))
    /\ "elf" \notin DOMAIN extra_args

\* C11: for a line that starts with "Backtrace", when extra_args holds no ELF
\* path, the decoder filter does not raise and does not invoke the resolver,
\* and once it has run it has claimed the line (so the driver does not print
\* it).
C11_RawBacktraceWithoutElf ==
    BacktraceWithoutElf =>
        /\ exc # "KeyError"
        /\ resolved = << >>
        /\ pc \in {"print", "key", "poll", "advance"} => Claimed(1)

-----------------------------------------------------------------------------
(* Startup: main from line 214 on *)

StartupStreams == {Append(X1, LF)}

\* main has parsed its arguments; nothing is loaded or opened
StartupInit ==
    /\ interactive \in BOOLEAN
    /\ dumpOn \in BOOLEAN
    /\ plugins \in SeqsUpTo(PluginKinds, MaxFilters)
    /\ plugin_filters = << >>
    /\ opened = << >>
    /\ extra_args = NoArgs
    /\ addr2line_ok = TRUE
    /\ wire \in StartupStreams
    /\ keys = << >>
    /\ pc = "load"
    /\ Fresh

StartupNext == LoadStep \/ OpenStep \/ DumpOpenStep \/ Next

SpecStartup == StartupInit /\ [][StartupNext]_vars

\* the plugins that cannot be loaded
BadPlugins == {i \in 1..Len(plugins) : plugins[i] \in {"missing", "nofunc"}}
FirstBad == CHOOSE i \in BadPlugins : \A j \in BadPlugins : i <= j

\* C12: if a configured plugin has no file or no monitor_plugin_filter, main
\* never gets past loading: the serial port and the dump file are never
\* opened, nothing is read, written or dispatched, the session loop is not
\* entered; loading stops at the first such plugin with an exception that
\* names it (FileNotFoundError for a missing file, Exception for a missing
\* function).
C12_PluginLoadFailsFast ==
    BadPlugins # {} =>
        /\ opened = << >>
        /\ received = << >> /\ framed = << >> /\ typed = << >>
        /\ dump = << >> /\ offered = << >> /\ calls = << >>
        /\ pc \in {"load", "uncaught", "done"}
        /\ Len(plugin_filters) < FirstBad
        /\ pc # "load" =>
              /\ blamed = FirstBad
              /\ exc = IF plugins[FirstBad] = "missing" THEN "FileNotFoundError"
                       ELSE "Exception"

\* the first plugin was loaded, the second has no filter function: main is
\* over, with nothing opened
C12_Witness ==
    /\ plugins = <<"A", "nofunc">>
    /\ plugin_filters = <<"A">>
    /\ blamed = 2
    /\ exc = "Exception"
    /\ opened = << >>
    /\ pc = "done"

-----------------------------------------------------------------------------
(* The two modes compared *)

\* what the chain makes of a line: the first filter that does not decline
\* decides; "decline" when every filter declined
RECURSIVE ChainOutcome(_, _)
ChainOutcome(i, ln) ==
    IF i > Len(plugin_filters) THEN "decline"
    ELSE LET out == CallFilter(plugin_filters[i], ln, extra_args, addr2line_ok).out
         IN  IF out = "decline" THEN ChainOutcome(i + 1, ln) ELSE out

\* the lines of ls up to and including the first one a filter raises on
RefOffered(ls) ==
    IF \E i \in 1..Len(ls) : ChainOutcome(1, ls[i]) = "raise"
    THEN SubSeq(ls, 1, CHOOSE i \in 1..Len(ls) :
                          /\ ChainOutcome(1, ls[i]) = "raise"
                          /\ \A j \in 1..(i - 1) : ChainOutcome(1, ls[j]) # "raise")
    ELSE ls

AllDeclinedLine(p) == ChainOutcome(1, p.text) = "decline"

\* of those, the lines every filter declined, each with its place
RefPrinted(ls) ==
    SelectSeq([i \in 1..Len(RefOffered(ls)) |-> [ln |-> i, text |-> ls[i]]],
              AllDeclinedLine)

\* the operator types nothing and does not interrupt
Silent == keys = << >> /\ typed = << >> /\ exc # "KeyboardInterrupt"

\* the newline-terminated lines of everything the device sends in the session
DeviceLines == RefLines(received \o Decode(wire))

\* the session has ended on an exception, or has consumed all the device sent
SessionOver ==
    \/ pc = "done"
    \/ /\ wire = << >> /\ ~HasLine(data) /\ queue = << >>
       /\ pc \in {"key", "poll", "read"}

\* C13: in a session without keystrokes, what is written to the dump file,
\* offered to the filter chain and printed by default is, in interactive and
\* in non-interactive mode alike, a function of the text the device sends, of
\* the filter chain and of the dump setting: at every moment a prefix of, and
\* at the end of the session exactly, the lines of the text up to the first
\* line a filter raises on (dump, offered) and those of them that every filter
\* declined (printed).  The mode does not enter the result.
C13_ModeEquivalence ==
    Silent =>
        /\ IsPrefix(offered, RefOffered(DeviceLines))
        /\ IsPrefix(dump, IF dumpOn THEN RefOffered(DeviceLines) ELSE << >>)
        /\ IsPrefix(printed, RefPrinted(DeviceLines))
        /\ SessionOver =>
              /\ offered = RefOffered(DeviceLines)
              /\ dump = (IF dumpOn THEN RefOffered(DeviceLines) ELSE << >>)
              /\ printed = RefPrinted(DeviceLines)

\* the outcome of the session "X1\nY1\n" with the chain [A] and a dump file
OutcomeX1Y1 ==
    /\ Silent
    /\ SessionOver
    /\ dumpOn
    /\ plugin_filters = <<"A">>
    /\ offered = <<X1, Y1>>
    /\ dump = <<X1, Y1>>
    /\ printed = << [ln |-> 2, text |-> Y1] >>

\* the interactive session reached that outcome
C13_Witness == interactive /\ OutcomeX1Y1

\* so did the non-interactive session
C13_WitnessNonInteractive == ~interactive /\ OutcomeX1Y1

-----------------------------------------------------------------------------
(* The buffer after a feed *)

\* a turn of the framer is over: the reader thread is between two turns of its
\* loop in every state; run_noninteractive is at the top of its loop
FeedDone == interactive \/ pc = "read"

\* C14: after each turn of the framer the buffer holds no newline: every
\* complete line it contained has been emitted and only the pending partial
\* line is left.
C14_NoNewlineRetained ==
    FeedDone => ~HasLine(data)

-----------------------------------------------------------------------------
(* The interactive console *)

\* the bytes of the operator: Backspace, Enter, two printable characters, a
\* control byte, a byte of a multi-byte character
ConsoleKeys == KeyBytes \cup {"b"}
ConsoleScripts == SeqsUpTo(ConsoleKeys, MaxKeys)

\* the device sends two lines while the operator types
ConsoleStreams == {<<"X", LF, "Y", LF>>}

\* interactive sessions without filters or dump file
ConsoleInit ==
    InitWith({TRUE}, {FALSE}, {<< >>}, {NoArgs}, {TRUE}, ConsoleStreams,
             ConsoleScripts)

ConsoleNext ==
    \/ Start
    \/ PumpStep
    \/ KeyStep
    \/ PollStep
    \/ GetStep
    \/ DumpStep
    \/ BeginStep
    \/ FilterStep
    \/ PrintStep
    \/ Interrupt
    \/ FinallyStep

SpecConsole == ConsoleInit /\ [][ConsoleNext]_vars

\* the printable characters among the bytes of the operator
PrintableKeys == {"a", "b"}

\* the bytes typed before each Enter, command by command
RECURSIVE Commands(_)
Commands(ks) ==
    LET e == Find(ks, ENTER)
    IN  IF e = 0 THEN << >>
        ELSE <<SubSeq(ks, 1, e - 1)>> \o Commands(SubSeq(ks, e + 1, Len(ks)))

\* the bytes typed since the last Enter
RECURSIVE SinceEnter(_)
SinceEnter(ks) ==
    LET e == Find(ks, ENTER)
    IN  IF e = 0 THEN ks ELSE SinceEnter(SubSeq(ks, e + 1, Len(ks)))

\* what typing ks leaves of it: the printable bytes in typing order, each
\* Backspace having removed the last byte left before it, if any
RECURSIVE Pending(_)
Pending(ks) ==
    IF ks = << >> THEN << >>
    ELSE LET before == Pending(SubSeq(ks, 1, Len(ks) - 1))
             c == ks[Len(ks)]
         IN  IF c \in PrintableKeys THEN Append(before, c)
             ELSE IF c = BACKSPACE /\ before # << >>
                  THEN SubSeq(before, 1, Len(before) - 1)
                  ELSE before

\* C15: the transport is written once per Enter read and at no other time;
\* the k-th write is the printable bytes typed for the k-th command, less
\* those removed by Backspace, in typing order, followed by one newline; the
\* command buffer holds what is left of the bytes typed since the last Enter,
\* so it is empty right after a write.
C15_CommandSubmission ==
    /\ Len(sent) = Len(Commands(typed))
    /\ \A k \in 1..Len(sent) : sent[k] = Pending(Commands(typed)[k]) \o <<"\n">>
    /\ buf = Pending(SinceEnter(typed))

\* "ab" was typed and submitted
C15_Witness ==
    /\ typed = <<"a", "b", ENTER>>
    /\ sent = << <<"a", "b", "\n">> >>
    /\ buf = << >>

\* C16: after a byte that is neither Backspace, Enter nor printable has been
\* read, the loop is still running (unless the operator interrupts), the
\* command buffer is what it was and nothing has been sent for the byte.
C16_OtherBytesDropped ==
    (/\ typed # << >>
     /\ typed[Len(typed)] \notin {BACKSPACE, ENTER} \cup PrintableKeys
     /\ exc # "KeyboardInterrupt")
        => /\ exc = "none"
           /\ ~Stopped
           /\ buf = Pending(SinceEnter(typed))
           /\ Len(sent) = Len(Commands(typed))

\* C17: a read of Backspace removes the last byte of a non-empty command
\* buffer and keeps the bytes before it; with an empty buffer it leaves the
\* buffer empty; it sends nothing; and the buffer never holds a Backspace.
C17_BackspaceFrame ==
    /\ [](\A i \in 1..Len(buf) : buf[i] # BACKSPACE)
    /\ [][typed' = Append(typed, BACKSPACE) =>
            /\ sent' = sent
            /\ Len(buf') = (IF buf = << >> THEN 0 ELSE Len(buf) - 1)
            /\ \A i \in 1..Len(buf') : buf'[i] = buf[i]]_vars

\* Backspace removed the "b" of "ab"
C17_Witness ==
    /\ typed = <<"a", "b", BACKSPACE>>
    /\ buf = <<"a">>

\* Backspace was read with an empty buffer
C17_WitnessEmpty ==
    /\ typed = <<BACKSPACE>>
    /\ buf = << >>
    /\ pc = "poll"

\* C18: between two reads of standard input the interactive loop takes at
\* most one line from the queue, however many are waiting; a read takes at
\* most one byte.
C18_OneLinePerTurn ==
    /\ [](drained <= 1)
    /\ [][Len(typed') <= Len(typed) + 1]_vars

\* a line has been dispatched and the loop is back at the read of standard
\* input while another line waits in the queue
C18_Witness ==
    /\ pc = "key"
    /\ drained = 1
    /\ Len(offered) = 1
    /\ queue # << >>

-----------------------------------------------------------------------------
(* The resolver calls of a decoded backtrace *)

\* the plugin has returned from a backtrace line, with a symbol file supplied
\* and a resolver that runs
BacktraceDecoded ==
    /\ calls # << >>
    /\ StartsWith(offered[1], Chars("Backtrace"))
    /\ "elf" \in DOMAIN extra_args
    /\ addr2line_ok

\* C19: with n the number of tokens after the repair of the third token, the
\* resolver calls are, in this order, one for each odd index i with
\* 1 <= i < n - 1, on the token at that index: none for an even index, none
\* for the last token, none twice.
C19_ResolvePositions ==
    BacktraceDecoded =>
        LET tokens == Repair(Split(offered[1]))
            n == Len(tokens)
        IN  resolved = [k \in 1..((n - 1) \div 2) |->
                           [i |-> 2 * k - 1, addr |-> tokens[2 * k]]]

\* a line of nine tokens: the resolver ran on tokens 1, 3, 5 and 7
C19_Witness ==
    /\ BacktraceDecoded
    /\ Len(Repair(Split(offered[1]))) = 9
    /\ Len(resolved) = 4
    /\ resolved[4].i = 7

\* a line of four tokens: the last token has an odd index and is not resolved
C19_WitnessOddLast ==
    /\ BacktraceDecoded
    /\ Len(Repair(Split(offered[1]))) = 4
    /\ Len(resolved) = 1

-----------------------------------------------------------------------------
(* The poll of the queue *)

\* C20: when the main loop calls get_nowait, after queue.empty() returned
\* False, the queue is not empty, whatever the reader thread did in between:
\* queue.Empty is never raised.
C20_PollNeverEmpty ==
    /\ pc = "get" => queue # << >>
    /\ exc # "Empty"

\* the main loop is between the test and the get, and the reader thread has
\* put two lines
C20_Witness ==
    /\ pc = "get"
    /\ Len(queue) = 2
=============================================================================
